---- MODULE Spec2Model ----
(***************************************************************************)
(* Champion/challenger selection, promotion and config publication         *)
(* (pipeline/update_config.py), the experiment the training step fills     *)
(* (pipeline/train.py), the process-wide config (configs/__init__.py) and  *)
(* the serving reload contract (deployment/services/model_service.py).     *)
(*                                                                         *)
(* MLflow is an external collaborator: the run metadata store is the       *)
(* sequence runs (run_id = position), the model registry is versions and   *)
(* aliases, and every remote call may fail (a choice of the environment).  *)
(***************************************************************************)
EXTENDS Integers, Sequences, FiniteSets, TLC

\* ------------------------------------------------------------------ bounds
MaxRuns == 2            \* runs the training step logs into the experiment
MaxPipelineRuns == 2    \* executions of update_config_pipeline
MaxRestarts == 2        \* GET /api/v1/restart requests served
MaxPublishes == 1       \* DAG runs of update_config beside the live service
MaxCalls == 2           \* calls of update_prod_config on one file, in a row

\* ------------------------------------------------------- value domains
RunNames == {"xgboost", "LightGBM"}
Metrics == {"accuracy", "f1_score"}
\* The metric values one run logs (train.py, lines 174-177).
MetricVectors == {[accuracy |-> 1, f1_score |-> 2], [accuracy |-> 2, f1_score |-> 1]}
AliasNames == {"champion", "challenger"}
Workers == {"t1", "t2"}      \* request threads of the API server
Main == "main"               \* the thread that imports model_service
Threads == Workers \cup {Main}

VARIABLES
    \* MLflow run metadata store
    expExists, runs,
    \* MLflow model registry
    versions, aliases,
    \* configs/prod.yml
    file,
    \* update_config_pipeline: position, arguments and locals
    ppc, args, champion_info, challenger_info, client, accepts, new_version,
    champion_uri, challenger_uri, pconfig, presult, npipelines,
    \* configs/__init__.py: the module global _config
    _config,
    \* model_service.py: the module globals model and config
    model, config,
    \* the URI (or local path) given to the load_model call whose result is
    \* the global model
    model_source,
    \* the serving process, its threads (position and locals of the call of
    \* initialize_model_service / restart_model_service each is in)
    service, pc, loc, nrestarts

storeVars == <<expExists, runs>>
registryVars == <<versions, aliases>>
pipeVars == <<ppc, args, champion_info, challenger_info, client, accepts,
              new_version, champion_uri, challenger_uri, pconfig, presult,
              npipelines>>
serveVars == <<_config, model, model_source, config, service, pc, loc,
               nrestarts>>
vars == <<storeVars, registryVars, file, pipeVars, serveVars>>

\* ------------------------------------------------------------ dictionaries
\* A Python dict is a function whose domain is its key set.
EmptyDict == [k \in {} |-> 0]

\* d[k] = v
DictSetKeepsExisting(d, k, v) ==
    IF k \in DOMAIN d THEN d
    ELSE [x \in (DOMAIN d) \cup {k} |-> IF x = k THEN v ELSE d[x]]

DictSet(d, k, v) == [x \in (DOMAIN d) \cup {k} |-> IF x = k THEN v ELSE d[x]]

\* d.setdefault(k, v)
SetDefaultOverwrites(d, k, v) == DictSet(d, k, v)

SetDefault(d, k, v) == IF k \in DOMAIN d THEN d ELSE DictSet(d, k, v)

\* ------------------------------------------------------------------- URIs
\* f"models:/{name}@{alias}" and f"runs:/{run_id}/model", kept structured so
\* that the loader can resolve them.
AliasUri(name, alias) == [scheme |-> "models", name |-> name, alias |-> alias, run |-> 0]

RunUri(run_id) == [scheme |-> "runs", name |-> "", alias |-> "", run |-> run_id]

NoUri == [scheme |-> "", name |-> "", alias |-> "", run |-> 0]

\* ---------------------------------------------------------- the config file
\* st = "missing": no file; "empty": a file of zero bytes (between open(.., 'w')
\* and the dump reaching it); "data": the YAML mapping d.
MissingFile == [st |-> "missing", d |-> EmptyDict]

TruncatedFile == [st |-> "empty", d |-> EmptyDict]

\* yaml.dump(config, f): the mapping, key by key (sort_keys=False keeps them all).
YamlDumpOnlyUris(cfg) ==
    [st |-> "data",
     d |-> [k \in (DOMAIN cfg) \cap {"model_uri", "fallback_model_uri"} |-> cfg[k]]]

YamlDump(cfg) == [st |-> "data", d |-> cfg]

\* A Python value that is None or a dict.
PyNone == [isNone |-> TRUE, d |-> EmptyDict]

PyDict(d) == [isNone |-> FALSE, d |-> d]

\* yaml.safe_load(f): None for an empty document, else the mapping.
YamlLoad(f) == IF f.st = "data" THEN PyDict(f.d) ELSE PyNone

\* load_config (configs lines 8-10) opens the file with mode "r": reading
\* leaves its content as it was.
FileAfterLoadTruncates(f) == [st |-> "empty", d |-> [k \in {} |-> 0]]

FileAfterLoad(f) == f

\* A hand-written prod.yml: the champion and challenger the service names
\* (model_service.py, lines 45 and 51), a custom worker count, no timeout.
InitialConfig ==
    [model_uri |-> AliasUri("LightGBM", "champion"),
     fallback_model_uri |-> AliasUri("xgboost", "challenger"),
     mlflow_host |-> "127.0.0.1",
     mlflow_port |-> 5000,
     workers |-> 7]

\* ---------------------------------------------------------- get_best_models
NoInfo == [run_id |-> 0, run_name |-> "", accuracy |-> 0]

Orderings(n) == {s \in [1..n -> 1..n] : \A i, j \in 1..n : s[i] = s[j] => i = j}

\* order_by=[f"metrics.{metric} DESC"]
OrderedDescAsc(order, metric) ==
    \A i \in 1..(Len(order) - 1) :
        runs[order[i]].metrics[metric] <= runs[order[i + 1]].metrics[metric]

OrderedDesc(order, metric) ==
    \A i \in 1..(Len(order) - 1) :
        runs[order[i]].metrics[metric] >= runs[order[i + 1]].metrics[metric]

\* mlflow.search_runs: every run of the experiment, best first; the order
\* among equal metric values is the store's.
SearchRuns(metric) == {order \in Orderings(Len(runs)) : OrderedDesc(order, metric)}

ModelInfo(order, k, metric) ==
    [run_id |-> order[k],
     run_name |-> runs[order[k]].run_name,
     accuracy |-> runs[order[k]].metrics[metric]]

Champion(order, metric) == ModelInfo(order, 1, metric)

ChallengerNoGuard(order, metric) ==
    IF Len(order) > 1 THEN ModelInfo(order, 2, metric) ELSE NoInfo

\* challenger = runs_df.iloc[1] if len(runs_df) > 1 else champion
Challenger(order, metric) ==
    IF Len(order) > 1 THEN ModelInfo(order, 2, metric) ELSE Champion(order, metric)

\* Without the runs_df.empty check, runs_df.iloc[0] raises IndexError.
SelectionErrorNoEmptyCheck ==
    IF ~expExists THEN "ValueError"
    ELSE IF Len(runs) = 0 THEN "IndexError"
    ELSE ""

\* The exception get_best_models raises, or "" when it raises none.
SelectionError ==
    IF ~expExists THEN "ValueError"
    ELSE IF Len(runs) = 0 THEN "ValueError"
    ELSE ""

\* --------------------------------------------------------- register_models
\* mlflow.register_model(uri, name): a new version of name, holding the run.
RegisterModel(vs, name, run_id) == [vs EXCEPT ![name] = Append(@, run_id)]

\* client.set_registered_model_alias(name, alias, version): overwrites.
SetAlias(al, name, alias, version) == [al EXCEPT ![name][alias] = version]

\* The first try block (lines 107-124): register the champion, create the
\* client, set the alias; any exception ends the block.
ChampionBlockVersions(reg_ok) ==
    IF reg_ok
    THEN RegisterModel(versions, champion_info.run_name, champion_info.run_id)
    ELSE versions

ChampionBlockAliases(reg_ok, alias_ok) ==
    IF reg_ok /\ alias_ok
    THEN SetAlias(aliases, champion_info.run_name, "champion",
                  Len(versions[champion_info.run_name]) + 1)
    ELSE aliases

\* client = mlflow.MlflowClient() is line 115, inside the champion's try and
\* after its register_model: the name is bound only when that call returned.
ClientBound(reg_ok) == reg_ok

\* The exception that ends the first try block, or "" when it runs through.
ChampionBlockException(reg_ok, alias_ok) ==
    IF reg_ok /\ alias_ok THEN "" ELSE "MlflowException"

\* The second try block (lines 130-146): client is the local of line 115; when
\* it is unbound, line 138 raises UnboundLocalError.
ChallengerAliasSet(reg_ok, alias_ok) == reg_ok /\ client /\ alias_ok

ChallengerBlockException(reg_ok, alias_ok) ==
    IF ~reg_ok THEN "MlflowException"
    ELSE IF ~client THEN "UnboundLocalError"
    ELSE IF ~alias_ok THEN "MlflowException"
    ELSE ""

\* except Exception as e (lines 123 and 145): every exception is caught.
CaughtOnlyMlflow(exc) == exc = "MlflowException"

Caught(exc) == TRUE

\* The exception that leaves register_models from a try block, "" when none.
Escapes(exc) == IF exc # "" /\ ~Caught(exc) THEN exc ELSE ""

ChallengerBlockVersions(reg_ok) ==
    IF reg_ok
    THEN RegisterModel(versions, challenger_info.run_name, challenger_info.run_id)
    ELSE versions

ChallengerBlockAliases(reg_ok, alias_ok) ==
    IF ChallengerAliasSet(reg_ok, alias_ok)
    THEN SetAlias(aliases, challenger_info.run_name, "challenger",
                  Len(versions[challenger_info.run_name]) + 1)
    ELSE aliases

\* The return value (lines 148-151).
RegisteredUri(info, alias) == AliasUri(info.run_name, alias)

\* -------------------------------------------------------- update_prod_config
\* Lines 187-198: the two URIs, then the defaults of the other fields.
MergeConfigSwapped(cfg, champion, challenger) ==
    DictSet(DictSet(cfg, "model_uri", challenger), "fallback_model_uri", champion)

MergeConfigNoDefaults(cfg, champion, challenger) ==
    DictSet(DictSet(cfg, "model_uri", champion), "fallback_model_uri", challenger)

MergeConfig(cfg, champion, challenger) ==
    LET c1 == DictSet(cfg, "model_uri", champion)
        c2 == DictSet(c1, "fallback_model_uri", challenger)
        c3 == SetDefault(c2, "flavor", "python_function")
        c4 == SetDefault(c3, "mlflow_port", 5000)
        c5 == SetDefault(c4, "mlflow_host", "127.0.0.1")
        c6 == SetDefault(c5, "api_host", "127.0.0.1")
        c7 == SetDefault(c6, "api_port", 8000)
        c8 == SetDefault(c7, "workers", 2)
    IN  SetDefault(c8, "timeout", 120)

\* Lines 181-185: yaml.safe_load(f) or {} when the file exists, else {}.
ReadExistingConfig(f) ==
    IF f.st = "missing" THEN EmptyDict
    ELSE LET v == YamlLoad(f) IN IF v.isNone THEN EmptyDict ELSE v.d

\* ------------------------------------------------------------ train_models
\* mlflow.set_experiment(experiment_name) creates the experiment (line 144).
SetExperiment ==
    /\ ppc = "idle"
    /\ ~expExists
    /\ expExists' = TRUE
    /\ UNCHANGED <<runs, registryVars, file, pipeVars, serveVars>>

\* with mlflow.start_run(run_name=model_name): log_metric(...), log_model(...)
\* (lines 172-187). The DAG runs training before update_config.
LogRun ==
    /\ ppc = "idle"
    /\ expExists
    /\ Len(runs) < MaxRuns
    /\ \E name \in RunNames, m \in MetricVectors :
           runs' = Append(runs, [run_name |-> name, metrics |-> m])
    /\ UNCHANGED <<expExists, registryVars, file, pipeVars, serveVars>>

\* --------------------------------------------------- update_config_pipeline
NoAccepts == [champion_reg |-> FALSE, champion_alias |-> FALSE,
              challenger_reg |-> FALSE, challenger_alias |-> FALSE]

NoVersions == [champion |-> 0, challenger |-> 0]

\* get_best_models (lines 22-84) as called at lines 243-247; a ValueError is
\* logged and re-raised by lines 269-271.
GetBestModels ==
    /\ ppc = "idle"
    /\ npipelines < MaxPipelineRuns
    /\ npipelines' = npipelines + 1
    /\ \E metric \in Metrics, register \in BOOLEAN :
           args' = [metric |-> metric, register |-> register]
    /\ client' = FALSE
    /\ accepts' = NoAccepts
    /\ new_version' = NoVersions
    /\ champion_uri' = NoUri
    /\ challenger_uri' = NoUri
    /\ pconfig' = EmptyDict
    /\ IF SelectionError # ""
       THEN /\ presult' = SelectionError
            /\ ppc' = "idle"
            /\ champion_info' = NoInfo
            /\ challenger_info' = NoInfo
       ELSE /\ presult' = ""
            /\ ppc' = "selected"
            /\ \E order \in SearchRuns(args'.metric) :
                   /\ champion_info' = Champion(order, args'.metric)
                   /\ challenger_info' = Challenger(order, args'.metric)
    /\ UNCHANGED <<storeVars, registryVars, file, serveVars>>

\* register_models, champion (lines 103-124); an exception that escaped it
\* would be logged and re-raised by update_config_pipeline (lines 269-271).
RegisterChampion ==
    /\ ppc = "selected"
    /\ args.register
    /\ \E reg_ok \in BOOLEAN :
       \E alias_ok \in (IF reg_ok THEN BOOLEAN ELSE {FALSE}) :
           /\ versions' = ChampionBlockVersions(reg_ok)
           /\ aliases' = ChampionBlockAliases(reg_ok, alias_ok)
           /\ client' = ClientBound(reg_ok)
           /\ accepts' = [accepts EXCEPT !.champion_reg = reg_ok,
                                         !.champion_alias = alias_ok]
           /\ new_version' = [new_version EXCEPT !.champion =
                                 IF reg_ok THEN Len(versions'[champion_info.run_name])
                                 ELSE 0]
           /\ presult' = Escapes(ChampionBlockException(reg_ok, alias_ok))
           /\ ppc' = IF presult' = "" THEN "champion_done" ELSE "idle"
    /\ UNCHANGED <<storeVars, file, args, champion_info, challenger_info,
                   champion_uri, challenger_uri, pconfig, npipelines, serveVars>>

\* register_models, challenger and return (lines 126-151).
RegisterChallenger ==
    /\ ppc = "champion_done"
    /\ \E reg_ok \in BOOLEAN :
       \E alias_ok \in (IF reg_ok THEN BOOLEAN ELSE {FALSE}) :
           /\ versions' = ChallengerBlockVersions(reg_ok)
           /\ aliases' = ChallengerBlockAliases(reg_ok, alias_ok)
           /\ accepts' = [accepts EXCEPT !.challenger_reg = reg_ok,
                                         !.challenger_alias = alias_ok]
           /\ new_version' = [new_version EXCEPT !.challenger =
                                 IF reg_ok THEN Len(versions'[challenger_info.run_name])
                                 ELSE 0]
           /\ presult' = Escapes(ChallengerBlockException(reg_ok, alias_ok))
           /\ IF presult' = ""
              THEN /\ champion_uri' = RegisteredUri(champion_info, "champion")
                   /\ challenger_uri' = RegisteredUri(challenger_info, "challenger")
                   /\ ppc' = "publish"
              ELSE /\ UNCHANGED <<champion_uri, challenger_uri>>
                   /\ ppc' = "idle"
    /\ UNCHANGED <<storeVars, file, args, champion_info, challenger_info,
                   client, pconfig, npipelines, serveVars>>

\* register=False: the run URIs, without registration (lines 255-258).
UseRunUris ==
    /\ ppc = "selected"
    /\ ~args.register
    /\ champion_uri' = RunUri(champion_info.run_id)
    /\ challenger_uri' = RunUri(challenger_info.run_id)
    /\ ppc' = "publish"
    /\ UNCHANGED <<storeVars, registryVars, file, args, champion_info,
                   challenger_info, client, accepts, new_version, pconfig,
                   presult, npipelines, serveVars>>

\* update_prod_config up to open(config_path, 'w') (lines 180-204): load the
\* existing config, merge, and open the file for writing, which truncates it.
\* Nothing but this function writes the file, so the load and the open are
\* one step for every other process.
PublishOpen ==
    /\ ppc = "publish"
    /\ pconfig' = MergeConfig(ReadExistingConfig(file), champion_uri, challenger_uri)
    /\ file' = TruncatedFile
    /\ ppc' = "publish_dump"
    /\ UNCHANGED <<storeVars, registryVars, args, champion_info,
                   challenger_info, client, accepts, new_version, champion_uri,
                   challenger_uri, presult, npipelines, serveVars>>

\* yaml.dump reaches the file when the with block closes it (lines 205-209);
\* update_config_pipeline returns (line 267) and its locals are gone; the
\* arguments and the selection of the call stay visible as its record.
PublishDump ==
    /\ ppc = "publish_dump"
    /\ file' = YamlDump(pconfig)
    /\ presult' = "ok"
    /\ ppc' = "idle"
    /\ client' = FALSE
    /\ accepts' = NoAccepts
    /\ new_version' = NoVersions
    /\ champion_uri' = NoUri
    /\ challenger_uri' = NoUri
    /\ pconfig' = EmptyDict
    /\ UNCHANGED <<storeVars, registryVars, args, champion_info,
                   challenger_info, npipelines, serveVars>>

\* ----------------------------------------------------------- model loading
\* A loaded model (the object mlflow.pyfunc.load_model returns) is identified
\* by the artifact it was built from; NoModel is Python's None (line 8).
NoModel == [artifact |-> "none", run |-> 0, path |-> ""]

RunModel(run_id) == [artifact |-> "run", run |-> run_id, path |-> ""]

LocalModel(path) == [artifact |-> "local", run |-> 0, path |-> path]

\* The hard-coded artifact directories of lines 46-55.
LocalChampionPath ==
    [scheme |-> "file", name |-> "m-de9a52a05f5d4977a99cecddac67c397", alias |-> "", run |-> 0]

LocalFallbackPath ==
    [scheme |-> "file", name |-> "m-3ae216e9f8194d8485da598362f03817", alias |-> "", run |-> 0]

\* What mlflow.pyfunc.load_model(uri) finds now: the run behind the alias's
\* version, the run itself, or the local directory; NoModel when there is none.
ResolveUri(uri) ==
    IF uri.scheme = "models"
    THEN IF /\ uri.name \in RunNames
            /\ uri.alias \in AliasNames
            /\ aliases[uri.name][uri.alias] # 0
         THEN RunModel(versions[uri.name][aliases[uri.name][uri.alias]])
         ELSE NoModel
    ELSE IF uri.scheme = "runs"
    THEN IF uri.run \in 1..Len(runs) THEN RunModel(uri.run) ELSE NoModel
    ELSE IF uri.scheme = "file"
    THEN LocalModel(uri.name)
    ELSE NoModel

\* load_model may always fail (server or disk unavailable); it can succeed
\* only when the URI resolves.
LoadOutcomes(uri) == IF ResolveUri(uri) # NoModel THEN BOOLEAN ELSE {FALSE}

\* ------------------------------------------------- initialize_model_service
\* What the endpoint answers: the HTTP status and the body, which is the
\* PredictionResponse (its churn_prediction is churn), {"message": ..},
\* {"error": ..} or the server's own "Internal Server Error".
NoResponse == [status |-> 0, body |-> "", churn |-> FALSE]

NoLocals ==
    [ret |-> PyNone,
     model_uri |-> NoUri, fallback_model_uri |-> NoUri,
     server_running |-> FALSE, champion_failed |-> FALSE,
     model |-> NoModel, source |-> NoUri, outcome |-> "",
     call |-> "", response |-> NoResponse,
     endpoint |-> "", upstream |-> 0]

\* restart_service (api/v1/main.py, lines 42-51): the message when
\* restart_model_service returned, the error when it raised. The main thread
\* serves no request.
RestartResponse(t, outcome) ==
    IF t = Main THEN NoResponse
    ELSE IF outcome = "ok" THEN [status |-> 200, body |-> "message", churn |-> FALSE]
    ELSE [status |-> 200, body |-> "error", churn |-> FALSE]

\* config["model_uri"] and config["fallback_model_uri"] (lines 13-14) raise
\* TypeError on None and KeyError on a missing key.
ConfigReadError(cfg) ==
    IF cfg.isNone THEN "TypeError"
    ELSE IF ~({"model_uri", "fallback_model_uri"} \subseteq DOMAIN cfg.d) THEN "KeyError"
    ELSE ""

\* Lines 28-33 and 40-58: what the first load_model is given.
ChampionTarget(l) == IF l.server_running THEN l.model_uri ELSE LocalChampionPath

\* Lines 35-38 and 60-63: what the load_model of the except clause is given.
FallbackTargetSameAsChampion(l) == ChampionTarget(l)

FallbackTarget(l) ==
    IF l.server_running THEN l.fallback_model_uri ELSE LocalFallbackPath

\* The exception that leaves initialize_model_service when the load of the
\* except clause (line 38 or 63) raises: nothing catches it.
FallbackLoadError == "MlflowException"

\* The global model once a call of initialize_model_service has raised: the
\* assignment of line 97 (or 100) is not reached.
ModelAfterFailureCleared(current) == NoModel

ModelAfterFailure(current) == current

\* The call raises err: it is over ("done") with that outcome.
Fail(t, err) ==
    /\ loc' = [loc EXCEPT ![t].outcome = err,
                           ![t].response = RestartResponse(t, err)]
    /\ pc' = [pc EXCEPT ![t] = "done"]
    /\ model' = ModelAfterFailure(model)
    /\ UNCHANGED model_source

\* Module import (lines 8-9): model = None; config = get_config(), which
\* loads the file because _config is None.
ServiceImport ==
    /\ service = "down"
    /\ pc[Main] = "idle"
    /\ file.st # "missing"
    /\ _config' = YamlLoad(file)
    /\ config' = YamlLoad(file)
    /\ service' = "starting"
    /\ file' = FileAfterLoad(file)
    /\ loc' = [loc EXCEPT ![Main] = [NoLocals EXCEPT !.ret = YamlLoad(file)]]
    /\ pc' = [pc EXCEPT ![Main] = "init"]
    /\ UNCHANGED <<storeVars, registryVars, pipeVars, model, model_source,
                   nrestarts>>

\* A request is served by a free thread of the server's pool; the threads
\* are interchangeable, so it is the first free one.
FreeWorker(t) == pc[t] = "idle" /\ (t = "t2" => pc["t1"] # "idle")

\* restart_model_service, line 95, inside reload_config (configs lines 20-21):
\* with _lock: _config = load_config().
ReloadConfig(t) ==
    /\ service = "up"
    /\ FreeWorker(t)
    /\ nrestarts < MaxRestarts
    /\ file.st # "missing"
    /\ nrestarts' = nrestarts + 1
    /\ _config' = YamlLoad(file)
    /\ file' = FileAfterLoad(file)
    /\ loc' = [loc EXCEPT ![t] = NoLocals]
    /\ pc' = [pc EXCEPT ![t] = "reload_return"]
    /\ UNCHANGED <<storeVars, registryVars, pipeVars, model, model_source,
                   config, service>>

\* reload_config, line 22: return _config, read after the lock is released.
ReloadReturn(t) ==
    /\ pc[t] = "reload_return"
    /\ loc' = [loc EXCEPT ![t].ret = _config]
    /\ pc' = [pc EXCEPT ![t] = "assign_config"]
    /\ UNCHANGED <<storeVars, registryVars, file, pipeVars, _config, model,
                   model_source,
                   config, service, nrestarts>>

\* restart_model_service, line 95: config = <the value returned>.
AssignConfig(t) ==
    /\ pc[t] = "assign_config"
    /\ config' = loc[t].ret
    /\ pc' = [pc EXCEPT ![t] = "init"]
    /\ UNCHANGED <<storeVars, registryVars, file, pipeVars, _config, model,
                   model_source,
                   service, loc, nrestarts>>

\* initialize_model_service, lines 13-26: the URIs of the global config and
\* the MLflow health check (any failure of it means "not running").
InitRead(t) ==
    /\ pc[t] = "init"
    /\ IF ConfigReadError(config) # ""
       THEN Fail(t, ConfigReadError(config))
       ELSE /\ \E running \in BOOLEAN :
                   loc' = [loc EXCEPT ![t].model_uri = config.d["model_uri"],
                                      ![t].fallback_model_uri = config.d["fallback_model_uri"],
                                      ![t].server_running = running]
            /\ pc' = [pc EXCEPT ![t] = "load_champion"]
            /\ UNCHANGED <<model, model_source>>
    /\ UNCHANGED <<storeVars, registryVars, file, pipeVars, _config,
                   config, service, nrestarts>>

\* The try of lines 32-34 / 57-59.
LoadChampion(t) ==
    /\ pc[t] = "load_champion"
    /\ \E ok \in LoadOutcomes(ChampionTarget(loc[t])) :
           IF ok
           THEN /\ loc' = [loc EXCEPT ![t].model = ResolveUri(ChampionTarget(loc[t])),
                                      ![t].source = ChampionTarget(loc[t])]
                /\ pc' = [pc EXCEPT ![t] = "return_model"]
           ELSE /\ loc' = [loc EXCEPT ![t].champion_failed = TRUE]
                /\ pc' = [pc EXCEPT ![t] = "load_fallback"]
    /\ UNCHANGED <<storeVars, registryVars, file, pipeVars, _config, model,
                   model_source,
                   config, service, nrestarts>>

\* The except of lines 35-39 / 60-64.
LoadFallback(t) ==
    /\ pc[t] = "load_fallback"
    /\ \E ok \in LoadOutcomes(FallbackTarget(loc[t])) :
           IF ok
           THEN /\ loc' = [loc EXCEPT ![t].model = ResolveUri(FallbackTarget(loc[t])),
                                      ![t].source = FallbackTarget(loc[t])]
                /\ pc' = [pc EXCEPT ![t] = "return_model"]
                /\ UNCHANGED <<model, model_source>>
           ELSE Fail(t, FallbackLoadError)
    /\ UNCHANGED <<storeVars, registryVars, file, pipeVars, _config,
                   config, service, nrestarts>>

\* Lines 66-70, then the assignment of line 97 (restart) or 100 (import).
ReturnModel(t) ==
    /\ pc[t] = "return_model"
    /\ IF loc[t].model = NoModel
       THEN Fail(t, "RuntimeError")
       ELSE /\ model' = loc[t].model
            /\ model_source' = loc[t].source
            /\ loc' = [loc EXCEPT ![t].outcome = "ok",
                                   ![t].response = RestartResponse(t, "ok")]
            /\ pc' = [pc EXCEPT ![t] = "done"]
    /\ UNCHANGED <<storeVars, registryVars, file, pipeVars, _config, config,
                   service, nrestarts>>

\* The call is over and its frame is gone. On a request thread the handler
\* of GET /restart or POST /predict answers (api/v1/main.py, lines 34-51). On the main thread
\* the import of model_service is complete and the app starts serving, or
\* the exception ends the process.
Finish(t) ==
    /\ pc[t] \in {"done", "predicted", "answered"}
    /\ service' = IF t # Main THEN service
                  ELSE IF loc[t].outcome = "ok" THEN "up" ELSE "crashed"
    /\ loc' = [loc EXCEPT ![t] = NoLocals]
    /\ pc' = [pc EXCEPT ![t] = "idle"]
    /\ UNCHANGED <<storeVars, registryVars, file, pipeVars, _config, model,
                   model_source,
                   config, nrestarts>>

\* model.predict(data) on the single record (line 79): the class the model
\* predicts, or an exception; None has no predict (AttributeError).
Classes == {"class0", "class1"}

ModelCallOutcomes(m) ==
    IF m = NoModel THEN {"AttributeError"} ELSE Classes \cup {"raised"}

\* predict (lines 72-84): the prediction is returned; an exception is logged
\* and raised again (lines 82-84).
PredictResultSwallows(call) == "returned"

PredictResult(call) ==
    IF call \in Classes THEN "returned"
    ELSE IF call = "AttributeError" THEN "AttributeError"
    ELSE "raised"

PredictOutcomes(m) == {PredictResult(call) : call \in ModelCallOutcomes(m)}

\* bool(prediction) (api/v1/main.py, line 37) of the value predict returned,
\* prediction[0]: the class as a number.
ChurnPredictionNegated(call) == call # "class1"

ChurnPrediction(call) == call = "class1"

\* What predict_churn returns (api/v1/main.py, lines 34-40): a
\* PredictionResponse, or the dict {"error": str(e)}.
HandlerReturn(outcome, call) ==
    IF outcome = "returned"
    THEN [status |-> 200, body |-> "churn_prediction", churn |-> ChurnPrediction(call)]
    ELSE [status |-> 200, body |-> "error", churn |-> FALSE]

\* response_model=PredictionResponse (api/v1/main.py, line 32): the server
\* validates what the handler returned against the model, whose
\* churn_prediction is required (telcom_customer.py, lines 23-24); a value
\* that fails raises ResponseValidationError past the handler and the
\* client gets the server's 500.
ValidateResponse(ret) ==
    IF ret.body = "churn_prediction" THEN ret
    ELSE [status |-> 500, body |-> "Internal Server Error", churn |-> FALSE]

\* POST /api/v1/predict on a request thread: one read of the global model,
\* the model call, and the answer.
Predict(t) ==
    /\ service = "up"
    /\ FreeWorker(t)
    /\ \E call \in ModelCallOutcomes(model) :
           loc' = [loc EXCEPT ![t] =
                      [NoLocals EXCEPT
                          !.model = model,
                          !.call = call,
                          !.outcome = PredictResult(call),
                          !.response = ValidateResponse(
                                           HandlerReturn(PredictResult(call), call))]]
    /\ pc' = [pc EXCEPT ![t] = "predicted"]
    /\ UNCHANGED <<storeVars, registryVars, file, pipeVars, _config, model,
                   model_source,
                   config, service, nrestarts>>

Init ==
    /\ expExists = FALSE
    /\ runs = <<>>
    /\ versions = [n \in RunNames |-> <<>>]
    /\ aliases = [n \in RunNames |-> [a \in AliasNames |-> 0]]
    /\ file = YamlDump(InitialConfig)
    /\ ppc = "idle"
    /\ args = [metric |-> "accuracy", register |-> TRUE]
    /\ champion_info = NoInfo
    /\ challenger_info = NoInfo
    /\ client = FALSE
    /\ accepts = NoAccepts
    /\ new_version = NoVersions
    /\ champion_uri = NoUri
    /\ challenger_uri = NoUri
    /\ pconfig = EmptyDict
    /\ presult = ""
    /\ npipelines = 0
    /\ _config = PyNone
    /\ model = NoModel
    /\ model_source = NoUri
    /\ config = PyNone
    /\ service = "down"
    /\ pc = [t \in Threads |-> "idle"]
    /\ loc = [t \in Threads |-> NoLocals]
    /\ nrestarts = 0

Next ==
    \/ SetExperiment
    \/ LogRun
    \/ GetBestModels
    \/ RegisterChampion
    \/ RegisterChallenger
    \/ UseRunUris
    \/ PublishOpen
    \/ PublishDump

Spec == Init /\ [][Next]_vars

\* The serving process beside the pipeline, on an experiment that already
\* holds its runs.
ServingExperiments ==
    {<<[run_name |-> "xgboost", metrics |-> [accuracy |-> 2, f1_score |-> 1]],
       [run_name |-> "LightGBM", metrics |-> [accuracy |-> 1, f1_score |-> 2]]>>}

\* What update_config_pipeline(metric="f1_score") left: LightGBM (run 2)
\* is version 1 and champion, xgboost (run 1) is version 1 and challenger,
\* and prod.yml names the two aliases.
ServingInit ==
    /\ expExists = TRUE
    /\ runs \in ServingExperiments
    /\ versions = [n \in RunNames |-> IF n = "LightGBM" THEN <<2>> ELSE <<1>>]
    /\ aliases = [n \in RunNames |->
                    [a \in AliasNames |->
                        IF (n = "LightGBM" /\ a = "champion") \/ (n = "xgboost" /\ a = "challenger")
                        THEN 1 ELSE 0]]
    /\ file = YamlDump(MergeConfig(InitialConfig, AliasUri("LightGBM", "champion"),
                                   AliasUri("xgboost", "challenger")))
    /\ ppc = "idle"
    /\ args = [metric |-> "accuracy", register |-> TRUE]
    /\ champion_info = NoInfo
    /\ challenger_info = NoInfo
    /\ client = FALSE
    /\ accepts = NoAccepts
    /\ new_version = NoVersions
    /\ champion_uri = NoUri
    /\ challenger_uri = NoUri
    /\ pconfig = EmptyDict
    /\ presult = ""
    /\ npipelines = 0
    /\ _config = PyNone
    /\ model = NoModel
    /\ model_source = NoUri
    /\ config = PyNone
    /\ service = "down"
    /\ pc = [t \in Threads |-> "idle"]
    /\ loc = [t \in Threads |-> NoLocals]
    /\ nrestarts = 0

\* The DAG's update_config task (airflow/dags/ml_pipeline.py, lines 75-86):
\* update_config_pipeline(metric='accuracy', register=True).
RunUpdateConfig ==
    /\ npipelines < MaxPublishes
    /\ GetBestModels
    /\ args'.metric = "accuracy"
    /\ args'.register

ServingNext ==
    \/ RunUpdateConfig
    \/ RegisterChampion
    \/ RegisterChallenger
    \/ PublishOpen
    \/ PublishDump
    \/ ServiceImport
    \/ InitRead(Main) \/ LoadChampion(Main) \/ LoadFallback(Main) \/ ReturnModel(Main)
    \/ Finish(Main)
    \/ \E t \in Workers :
           \/ ReloadConfig(t)
           \/ ReloadReturn(t)
           \/ AssignConfig(t)
           \/ InitRead(t)
           \/ LoadChampion(t)
           \/ LoadFallback(t)
           \/ ReturnModel(t)
           \/ Finish(t)
           \/ Predict(t)

ServingSpec == ServingInit /\ [][ServingNext]_vars

\* ------------------------------------------------- the scheduler endpoints
\* POST /api/v1/trigger-training and GET /api/v1/training-status/{dag_run_id}
\* (api/v1/main.py, lines 54-147) forward to the Airflow REST API.
SchedulerEndpoints == {"trigger-training", "training-status"}

\* What requests.post / requests.get does: it returns a response with a
\* status code ("status"), one whose body is not JSON ("bad_json", seen only
\* when the status is 200 and response.json() is called), or raises.
AirflowAnswers == {"status", "bad_json", "ConnectionError", "ReadTimeout"}

AirflowStatuses == {200, 401, 404, 409}

StatusesOf(answer) ==
    IF answer = "status" THEN AirflowStatuses
    ELSE IF answer = "bad_json" THEN {200}
    ELSE {0}

\* The exception raised inside the try block (lines 61-95 and 115-138), ""
\* when the block returns: the HTTPException of lines 92-95 / 135-138 is
\* raised inside it.
RaisedInTry(answer, s) ==
    IF answer = "status" THEN (IF s = 200 THEN "" ELSE "HTTPException")
    ELSE IF answer = "bad_json" THEN "JSONDecodeError"
    ELSE answer

\* The detail of the HTTPException raised in the else branch.
FailureDetail(endpoint) ==
    IF endpoint = "trigger-training" THEN "Failed to trigger DAG"
    ELSE "Failed to get DAG status"

\* The classes except Exception catches: HTTPException derives from
\* Exception, as do the exceptions of requests and of the JSON decoder.
ExceptionSubclasses ==
    {"HTTPException", "JSONDecodeError", "ConnectionError", "ReadTimeout"}

\* The answer of the endpoint: the return of the try block, or the
\* HTTPException that leaves the handler after its except clauses, tried in
\* order (lines 97-105 and 140-147).
SchedulerResponse(endpoint, answer, s) ==
    LET exc == RaisedInTry(answer, s) IN
        IF exc = ""
        THEN [status |-> 200, body |-> "dag_run", churn |-> FALSE]
        ELSE IF exc = "ConnectionError"
        THEN [status |-> 503, body |-> "Cannot connect to Airflow", churn |-> FALSE]
        ELSE IF exc \in ExceptionSubclasses
        THEN [status |-> 500, body |-> "str(e)", churn |-> FALSE]
        ELSE [status |-> s, body |-> FailureDetail(endpoint), churn |-> FALSE]

\* One request to a scheduler endpoint on a request thread.
SchedulerRequest(t, endpoint) ==
    /\ service = "up"
    /\ FreeWorker(t)
    /\ \E answer \in AirflowAnswers :
       \E s \in StatusesOf(answer) :
           loc' = [loc EXCEPT ![t] =
                      [NoLocals EXCEPT
                          !.endpoint = endpoint,
                          !.call = answer,
                          !.upstream = s,
                          !.outcome = RaisedInTry(answer, s),
                          !.response = SchedulerResponse(endpoint, answer, s)]]
    /\ pc' = [pc EXCEPT ![t] = "answered"]
    /\ UNCHANGED <<storeVars, registryVars, file, pipeVars, _config, model,
                   model_source, config, service, nrestarts>>

\* POST /api/v1/trigger-training (lines 54-105).
TriggerTraining(t) ==
    /\ pc[t] = "idle"
    /\ SchedulerRequest(t, "trigger-training")

\* GET /api/v1/training-status/{dag_run_id} (lines 108-147).
GetTrainingStatus(t) ==
    /\ pc[t] = "idle"
    /\ SchedulerRequest(t, "training-status")

\* The service after a successful import beside a running MLflow server: the
\* champion of prod.yml is loaded.
SchedulerInit ==
    /\ expExists = TRUE
    /\ runs \in ServingExperiments
    /\ versions = [n \in RunNames |-> IF n = "LightGBM" THEN <<2>> ELSE <<1>>]
    /\ aliases = [n \in RunNames |->
                    [a \in AliasNames |->
                        IF (n = "LightGBM" /\ a = "champion") \/ (n = "xgboost" /\ a = "challenger")
                        THEN 1 ELSE 0]]
    /\ file = YamlDump(MergeConfig(InitialConfig, AliasUri("LightGBM", "champion"),
                                   AliasUri("xgboost", "challenger")))
    /\ ppc = "idle"
    /\ args = [metric |-> "accuracy", register |-> TRUE]
    /\ champion_info = NoInfo
    /\ challenger_info = NoInfo
    /\ client = FALSE
    /\ accepts = NoAccepts
    /\ new_version = NoVersions
    /\ champion_uri = NoUri
    /\ challenger_uri = NoUri
    /\ pconfig = EmptyDict
    /\ presult = ""
    /\ npipelines = 0
    /\ _config = YamlLoad(file)
    /\ config = YamlLoad(file)
    /\ model = RunModel(2)
    /\ model_source = AliasUri("LightGBM", "champion")
    /\ service = "up"
    /\ pc = [t \in Threads |-> "idle"]
    /\ loc = [t \in Threads |-> NoLocals]
    /\ nrestarts = 0

SchedulerNext ==
    \E t \in Workers :
        \/ TriggerTraining(t)
        \/ GetTrainingStatus(t)
        \/ Finish(t)

SchedulerSpec == SchedulerInit /\ [][SchedulerNext]_vars

\* ------------------------------------------------ update_prod_config alone
\* update_prod_config(champion_uri, challenger_uri, config_path) as a function
\* of the file it finds and of the two URIs it is given.
PublishUris == {AliasUri("LightGBM", "champion"), AliasUri("xgboost", "challenger"),
                RunUri(1)}

\* A prod.yml somebody wrote: the mapping d.
ExistingFile(d) == [st |-> "data", d |-> d]

\* Mappings a prod.yml may hold before a publish: the hand-written one, one
\* without URIs holding a field the code does not know, one that overrides
\* defaults and names a URI.
PriorConfigs ==
    {InitialConfig,
     [workers |-> 7, owner |-> "ml-team"],
     [model_uri |-> RunUri(1), flavor |-> "sklearn", timeout |-> 30]}

\* The file before the first publish: absent, empty, or a mapping.
PriorFiles == {MissingFile, TruncatedFile} \cup {ExistingFile(d) : d \in PriorConfigs}

\* The call of update_prod_config (lines 154-178; update_config_pipeline
\* makes it at lines 261-265): its parameters are bound. npipelines counts
\* the calls.
CallUpdateProdConfig(u1, u2) ==
    /\ ppc = "idle"
    /\ npipelines < MaxCalls
    /\ npipelines' = npipelines + 1
    /\ champion_uri' = u1
    /\ challenger_uri' = u2
    /\ ppc' = "publish"
    /\ UNCHANGED <<storeVars, registryVars, file, args, champion_info,
                   challenger_info, client, accepts, new_version, pconfig,
                   presult, serveVars>>

PublishInit ==
    /\ expExists = FALSE
    /\ runs = <<>>
    /\ versions = [n \in RunNames |-> <<>>]
    /\ aliases = [n \in RunNames |-> [a \in AliasNames |-> 0]]
    /\ file \in PriorFiles
    /\ ppc = "idle"
    /\ args = [metric |-> "accuracy", register |-> TRUE]
    /\ champion_info = NoInfo
    /\ challenger_info = NoInfo
    /\ client = FALSE
    /\ accepts = NoAccepts
    /\ new_version = NoVersions
    /\ champion_uri = NoUri
    /\ challenger_uri = NoUri
    /\ pconfig = EmptyDict
    /\ presult = ""
    /\ npipelines = 0
    /\ _config = PyNone
    /\ model = NoModel
    /\ model_source = NoUri
    /\ config = PyNone
    /\ service = "down"
    /\ pc = [t \in Threads |-> "idle"]
    /\ loc = [t \in Threads |-> NoLocals]
    /\ nrestarts = 0

PublishNext ==
    \/ \E u1, u2 \in PublishUris : CallUpdateProdConfig(u1, u2)
    \/ PublishOpen
    \/ PublishDump

PublishSpec == PublishInit /\ [][PublishNext]_vars

\* ------------------------------------------------------------------ claims
\* The record restart_model_service got from reload_config names both URIs.
RestartRecordUsable(t) == ConfigReadError(loc[t].ret) = ""

\* C1 (as stated): a restart that succeeded loaded the model named by the
\* record it re-read from disk: its model_uri, or its fallback_model_uri when
\* the champion load failed, whatever the health check answered.
C1_RestartLoadsRecord ==
    \A t \in Workers :
        (pc[t] = "done" /\ loc[t].outcome = "ok" /\ RestartRecordUsable(t)) =>
            loc[t].source = IF loc[t].champion_failed
                            THEN loc[t].ret.d["fallback_model_uri"]
                            ELSE loc[t].ret.d["model_uri"]

\* C2: once the service is up the global model is a loaded model; it changes
\* only to the handle a call of initialize_model_service returned; a restart
\* that raises leaves it as it was; a predict has read a loaded model.
C2_ActiveModelAlwaysLoaded ==
    /\ [](service = "up" => model # NoModel)
    /\ [](\A t \in Workers :
             pc[t] = "predicted" =>
                 loc[t].model # NoModel /\ loc[t].outcome # "AttributeError")
    /\ [][/\ model' # model =>
               \E t \in Threads : /\ pc[t] = "return_model"
                                  /\ loc[t].model # NoModel
                                  /\ model' = loc[t].model
                                  /\ loc'[t].outcome = "ok"
          /\ \A t \in Workers :
               (pc[t] # "done" /\ pc'[t] = "done" /\ loc'[t].outcome # "ok") =>
                   model' = model
          /\ \A t \in Workers :
               (pc[t] = "idle" /\ pc'[t] = "predicted") => loc'[t].model = model]_vars

\* A restart whose two loads failed is over while another request thread has
\* predicted with the model that is still active.
C2_Witness ==
    \E t, u \in Workers :
        /\ pc[t] = "done"
        /\ loc[t].champion_failed
        /\ loc[t].outcome = FallbackLoadError
        /\ pc[u] = "predicted"
        /\ loc[u].model = model
        /\ model # NoModel

\* C3: with the MLflow server answering, when the load of model_uri fails and
\* the load of fallback_model_uri succeeds, the call gets the model behind
\* fallback_model_uri, returns it without raising, and it becomes active.
C3_FallbackLoad ==
    [][\A t \in Threads :
          /\ (/\ pc[t] = "load_fallback"
              /\ pc'[t] = "return_model"
              /\ loc[t].server_running) =>
                 /\ loc[t].champion_failed
                 /\ loc'[t].model = ResolveUri(loc[t].fallback_model_uri)
                 /\ loc'[t].model # NoModel
                 /\ loc'[t].source = loc[t].fallback_model_uri
          /\ (/\ pc[t] = "return_model"
              /\ pc'[t] # "return_model"
              /\ loc[t].champion_failed) =>
                 /\ loc'[t].outcome = "ok"
                 /\ model' = loc[t].model]_vars

\* A call that loaded the fallback after the champion failed has returned.
C3_Witness ==
    \E t \in Threads :
        /\ pc[t] = "done"
        /\ loc[t].server_running
        /\ loc[t].champion_failed
        /\ loc[t].outcome = "ok"
        /\ loc[t].source = loc[t].fallback_model_uri
        /\ loc[t].source # loc[t].model_uri
        /\ model = loc[t].model

\* C4 (as stated): a call whose champion load and fallback load both failed
\* ends with the RuntimeError of lines 66-68.
C4_BothFailRuntimeError ==
    \A t \in Threads :
        (pc[t] = "done" /\ loc[t].champion_failed /\ loc[t].model = NoModel) =>
            loc[t].outcome = "RuntimeError"

\* The selection a running pipeline holds.
Selected == ppc \in {"selected", "champion_done", "publish", "publish_dump"}

\* C5: on an experiment of at least two runs the champion and the challenger
\* are different runs, each carries its run's value of the selection metric,
\* the champion's is at least the challenger's and no run has a higher one.
C5_ChampionBeatsChallenger ==
    (Selected /\ Len(runs) >= 2) =>
        /\ champion_info.run_id \in 1..Len(runs)
        /\ challenger_info.run_id \in 1..Len(runs)
        /\ champion_info.run_id # challenger_info.run_id
        /\ champion_info.accuracy = runs[champion_info.run_id].metrics[args.metric]
        /\ challenger_info.accuracy = runs[challenger_info.run_id].metrics[args.metric]
        /\ champion_info.accuracy >= challenger_info.accuracy
        /\ \A r \in 1..Len(runs) :
               runs[r].metrics[args.metric] <= champion_info.accuracy

\* A selection among two runs of different metric value.
C5_Witness ==
    /\ ppc = "selected"
    /\ Len(runs) >= 2
    /\ champion_info.accuracy > challenger_info.accuracy

\* C6: on an experiment of exactly one run get_best_models raises nothing and
\* returns that run as champion and as challenger.
C6_SingleRunSelfPairing ==
    [][(npipelines' # npipelines /\ expExists /\ Len(runs) = 1) =>
          /\ presult' = ""
          /\ ppc' = "selected"
          /\ champion_info' = ModelInfo(<<1>>, 1, args'.metric)
          /\ challenger_info' = champion_info']_vars

\* The selection on a one-run experiment.
C6_Witness ==
    /\ ppc = "selected"
    /\ Len(runs) = 1
    /\ champion_info.run_id = 1
    /\ challenger_info = champion_info

\* C7: when the experiment is missing or empty, the pipeline call ends at
\* once with the ValueError of get_best_models: no version is registered,
\* no alias moves and prod.yml keeps its content.
C7_SelectionFailurePropagates ==
    [][(npipelines' # npipelines /\ (~expExists \/ Len(runs) = 0)) =>
          /\ presult' = "ValueError"
          /\ ppc' = "idle"
          /\ versions' = versions
          /\ aliases' = aliases
          /\ file' = file]_vars

\* A pipeline call that failed on an existing but empty experiment.
C7_Witness ==
    /\ ppc = "idle"
    /\ presult = "ValueError"
    /\ expExists
    /\ Len(runs) = 0
    /\ npipelines > 0

\* C8 (as stated): when register_models returns and the registry accepted the
\* challenger's register_model and would accept its set-alias call, the
\* 'challenger' alias is the challenger's new version.
C8_ChallengerPromotedRegardless ==
    (ppc = "publish" /\ args.register
        /\ accepts.challenger_reg /\ accepts.challenger_alias) =>
        aliases[challenger_info.run_name]["challenger"] = new_version.challenger

\* C9: whatever the registry answers, no step of register_models lets an
\* exception out, it returns the two alias URIs, and update_prod_config is
\* then run with them.
C9_RegistryFailuresNonFatal ==
    /\ [][/\ (ppc \in {"selected", "champion_done"} /\ args.register) =>
               /\ presult' = ""
               /\ ppc' \in {ppc, "champion_done", "publish"}
          /\ (ppc = "publish" /\ args.register /\ ppc' # ppc) =>
               /\ ppc' = "publish_dump"
               /\ pconfig'["model_uri"] = champion_uri
               /\ pconfig'["fallback_model_uri"] = challenger_uri]_vars
    /\ []((ppc = "publish" /\ args.register) =>
             /\ champion_uri = AliasUri(champion_info.run_name, "champion")
             /\ challenger_uri = AliasUri(challenger_info.run_name, "challenger"))

\* Every registry call failed, and the config about to be written names the
\* two aliases.
C9_Witness ==
    /\ ppc = "publish_dump"
    /\ args.register
    /\ accepts = NoAccepts
    /\ ~client
    /\ pconfig["model_uri"] = AliasUri(champion_info.run_name, "champion")
    /\ pconfig["fallback_model_uri"] = AliasUri(challenger_info.run_name, "challenger")

\* The pipeline call completed and wrote prod.yml.
Completed == ppc = "idle" /\ presult = "ok"

\* C10 (as stated): after a completed pipeline call, whatever its arguments,
\* prod.yml names the 'champion' alias of the champion's model name and the
\* 'challenger' alias of the challenger's.
C10_AlwaysAliasAddressed ==
    Completed =>
        /\ file.st = "data"
        /\ file.d["model_uri"] = AliasUri(champion_info.run_name, "champion")
        /\ file.d["fallback_model_uri"] = AliasUri(challenger_info.run_name, "challenger")

\* C10 (amended): that holds after a call with register=True; after a call
\* with register=False the two fields are the run URIs of the selected runs.
C10_AliasAddressedWhenRegistering ==
    Completed =>
        /\ file.st = "data"
        /\ file.d["model_uri"] =
              IF args.register THEN AliasUri(champion_info.run_name, "champion")
              ELSE RunUri(champion_info.run_id)
        /\ file.d["fallback_model_uri"] =
              IF args.register THEN AliasUri(challenger_info.run_name, "challenger")
              ELSE RunUri(challenger_info.run_id)

\* A second call, with register=True, completed after a first one.
C10_Witness ==
    /\ Completed
    /\ npipelines = 2
    /\ args.register
    /\ file.d["model_uri"] = AliasUri(champion_info.run_name, "champion")
    /\ champion_info.run_id # challenger_info.run_id

\* C11 (as stated): what load_config has read, at import or in a restart, is
\* always a complete record holding model_uri and fallback_model_uri, also
\* when update_prod_config is writing the file at that moment.
C11_ReadersSeeCompleteRecord ==
    service # "down" => ConfigReadError(_config) = ""

\* The step in which update_prod_config reads, merges and opens the file.
MergeStep == ppc = "publish" /\ ppc' = "publish_dump"

\* The step in which the dump reaches the file and the call returns.
DumpStep == ppc = "publish_dump" /\ ppc' = "idle"

UriKeys == {"model_uri", "fallback_model_uri"}

\* C12: every key the file held before the publish, other than the two URI
\* keys, is in the record written, with the value it had; the record written
\* is what the file holds after the publish.
C12_NonDestructiveMerge ==
    [][/\ MergeStep =>
            \A k \in (DOMAIN ReadExistingConfig(file)) \ UriKeys :
                /\ k \in DOMAIN pconfig'
                /\ pconfig'[k] = ReadExistingConfig(file)[k]
       /\ DumpStep =>
            /\ file'.st = "data"
            /\ DOMAIN file'.d = DOMAIN pconfig
            /\ \A k \in DOMAIN pconfig : file'.d[k] = pconfig[k]]_vars

\* A publish completed on a file that held workers: 7 and an unknown field.
C12_Witness ==
    /\ Completed
    /\ "owner" \in DOMAIN file.d
    /\ file.d["owner"] = "ml-team"
    /\ file.d["workers"] = 7
    /\ "model_uri" \in DOMAIN file.d

\* C13: when update_prod_config(u1, u2, path) returns, a read of path yields
\* a mapping whose model_uri is u1 and whose fallback_model_uri is u2,
\* whatever the file held before (nothing, an empty document, a mapping).
C13_RoundTrip ==
    [][DumpStep =>
          LET r == YamlLoad(file') IN
              /\ ~r.isNone
              /\ UriKeys \subseteq DOMAIN r.d
              /\ r.d["model_uri"] = champion_uri
              /\ r.d["fallback_model_uri"] = challenger_uri]_vars

\* A second publish replaced the URIs the first one had written.
C13_Witness ==
    /\ Completed
    /\ npipelines = 2
    /\ file.d["model_uri"] = RunUri(1)
    /\ file.d["fallback_model_uri"] = RunUri(1)
    /\ "owner" \in DOMAIN file.d

\* C14: a second call with the same URIs on the file a first call left
\* writes the record the first call wrote: merging what is read back from
\* the dump of a merged record changes nothing, and a call that finds the
\* file left by a call with its own URIs is about to write that file's record.
C14_Idempotent ==
    /\ ppc = "publish_dump" =>
           MergeConfig(ReadExistingConfig(YamlDump(pconfig)),
                       champion_uri, challenger_uri) = pconfig
    /\ (/\ ppc = "publish"
        /\ presult = "ok"
        /\ file.st = "data"
        /\ UriKeys \subseteq DOMAIN file.d
        /\ file.d["model_uri"] = champion_uri
        /\ file.d["fallback_model_uri"] = challenger_uri) =>
           MergeConfig(ReadExistingConfig(file), champion_uri, challenger_uri) = file.d

\* A second call is made with the URIs the first call published, on a file
\* that kept a non-default worker count.
C14_Witness ==
    /\ ppc = "publish"
    /\ presult = "ok"
    /\ npipelines = 2
    /\ file.st = "data"
    /\ file.d["model_uri"] = champion_uri
    /\ file.d["fallback_model_uri"] = challenger_uri
    /\ file.d["workers"] = 7

\* The fields of the persisted record.
NineFields == {"model_uri", "fallback_model_uri", "flavor", "mlflow_host",
               "mlflow_port", "api_host", "api_port", "workers", "timeout"}

\* C15: the record update_prod_config writes holds the nine fields; a field
\* that the file (none, empty or a mapping) did not hold has its default;
\* the file holds the nine fields after every completed publish.
C15_AllFieldsPresent ==
    /\ [][MergeStep =>
             LET before == ReadExistingConfig(file)
                 absent(k) == k \notin DOMAIN before
             IN  /\ NineFields \subseteq DOMAIN pconfig'
                 /\ absent("flavor") => pconfig'["flavor"] = "python_function"
                 /\ absent("mlflow_host") => pconfig'["mlflow_host"] = "127.0.0.1"
                 /\ absent("mlflow_port") => pconfig'["mlflow_port"] = 5000
                 /\ absent("api_host") => pconfig'["api_host"] = "127.0.0.1"
                 /\ absent("api_port") => pconfig'["api_port"] = 8000
                 /\ absent("workers") => pconfig'["workers"] = 2
                 /\ absent("timeout") => pconfig'["timeout"] = 120]_vars
    /\ [](Completed => file.st = "data" /\ NineFields \subseteq DOMAIN file.d)

\* A publish completed on a file that was missing or empty: the record is
\* the two URIs and the seven defaults.
C15_Witness ==
    /\ Completed
    /\ npipelines = 1
    /\ DOMAIN file.d = NineFields
    /\ file.d["flavor"] = "python_function"
    /\ file.d["workers"] = 2
    /\ file.d["timeout"] = 120
    /\ file.d["api_port"] = 8000

\* Thread t is inside restart_model_service: between its reload of the
\* config and the return of initialize_model_service.
InRestart(t) ==
    pc[t] \in {"reload_return", "assign_config", "init", "load_champion",
               "load_fallback", "return_model"}

\* C16 (as stated): at most one request thread is inside
\* restart_model_service at any moment.
C16_RestartSerialized ==
    Cardinality({t \in Workers : InRestart(t)}) <= 1

\* C17: no step of a request thread (a restart or a predict, alone or beside
\* another restart) changes prod.yml: the file changes only in a step of
\* update_prod_config, and outside a publish it is the complete record of
\* the last one.
C17_RestartsLeaveFileAlone ==
    /\ [][(\E t \in Workers : pc'[t] # pc[t]) => file' = file]_vars
    /\ [][file' # file => ppc \in {"publish", "publish_dump"}]_vars
    /\ [](ppc # "publish_dump" =>
             file.st = "data" /\ UriKeys \subseteq DOMAIN file.d)

\* Two restarts have reloaded the config and are both still in flight, one
\* of them already past its load of the model; the file is a complete record.
C17_Witness ==
    /\ pc["t1"] = "return_model"
    /\ pc["t2"] = "init"
    /\ nrestarts = 2
    /\ file.st = "data"
    /\ UriKeys \subseteq DOMAIN file.d

\* C18: predict returns exactly when the model call produced a prediction,
\* and otherwise ends with the exception of the model call; a predict, failed
\* or not, changes neither the active model nor the config snapshot nor what
\* another thread is doing.
C18_PredictReturnsOrRaises ==
    /\ [](\A t \in Workers :
             pc[t] = "predicted" =>
                 /\ loc[t].outcome = "returned" <=> loc[t].call \in Classes
                 /\ loc[t].call = "raised" => loc[t].outcome = "raised"
                 /\ loc[t].call = "AttributeError" => loc[t].outcome = "AttributeError")
    /\ [][\A t \in Workers :
             (pc[t] = "predicted" \/ pc'[t] = "predicted") /\ pc'[t] # pc[t] =>
                 /\ model' = model
                 /\ config' = config
                 /\ _config' = _config
                 /\ \A u \in Threads \ {t} : loc'[u] = loc[u] /\ pc'[u] = pc[u]]_vars

\* One predict failed in the model call while another, on the same active
\* model, returned.
C18_Witness ==
    \E t, u \in Workers :
        /\ pc[t] = "predicted"
        /\ loc[t].call = "raised"
        /\ loc[t].outcome = "raised"
        /\ pc[u] = "predicted"
        /\ loc[u].outcome = "returned"
        /\ loc[u].model = model
        /\ loc[t].model = model

\* C19: when the active model predicts a class for the record, POST
\* /api/v1/predict answers 200 with a churn_prediction that is true for
\* class 1 and false for class 0.
C19_ChurnPredictionIsClass ==
    \A t \in Workers :
        (pc[t] = "predicted" /\ loc[t].call \in Classes) =>
            /\ loc[t].response.status = 200
            /\ loc[t].response.body = "churn_prediction"
            /\ loc[t].response.churn <=> loc[t].call = "class1"

\* Two requests answered, one for class 1 and one for class 0.
C19_Witness ==
    \E t, u \in Workers :
        /\ pc[t] = "predicted"
        /\ loc[t].call = "class1"
        /\ loc[t].response.churn
        /\ pc[u] = "predicted"
        /\ loc[u].call = "class0"
        /\ ~loc[u].response.churn
        /\ loc[u].response.body = "churn_prediction"

\* C20 (as stated): a predict that raised is answered with the JSON error
\* body, a restart that raised with the error body, a restart that returned
\* with the message; nothing gets past the handler.
C20_ErrorsStayInsideBoundary ==
    \A t \in Workers :
        /\ (pc[t] = "predicted" /\ loc[t].outcome # "returned") =>
               loc[t].response.status = 200 /\ loc[t].response.body = "error"
        /\ (pc[t] = "done" /\ loc[t].outcome # "ok") =>
               loc[t].response.status = 200 /\ loc[t].response.body = "error"
        /\ (pc[t] = "done" /\ loc[t].outcome = "ok") =>
               loc[t].response.status = 200 /\ loc[t].response.body = "message"

\* The service is up and no request thread is inside, or just out of, a
\* call of restart_model_service.
NoRestartInFlight ==
    /\ service = "up"
    /\ \A t \in Workers : ~InRestart(t) /\ pc[t] # "done"

\* C21 (as stated): whenever no restart is in flight, the global config is a
\* record and the active model is the result of a load of that record's
\* model_uri or fallback_model_uri.
C21_ModelMatchesSnapshot ==
    NoRestartInFlight =>
        /\ ConfigReadError(config) = ""
        /\ model_source \in {config.d["model_uri"], config.d["fallback_model_uri"]}

\* C22 (as stated): a scheduler endpoint answers a non-200 status s of the
\* Airflow API with an HTTP error of status s and the endpoint's failure
\* detail, a connection error with 503, and another exception with 500.
C22_StatusPassthrough ==
    \A t \in Workers :
        pc[t] = "answered" =>
            /\ (loc[t].call = "status" /\ loc[t].upstream # 200) =>
                   /\ loc[t].response.status = loc[t].upstream
                   /\ loc[t].response.body = FailureDetail(loc[t].endpoint)
            /\ loc[t].call = "ConnectionError" => loc[t].response.status = 503
            /\ loc[t].call \in {"bad_json", "ReadTimeout"} =>
                   loc[t].response.status = 500

====
